---- MODULE Spec2Model ----
(***************************************************************************)
(* Model of the chat request pipeline of voosh-rag-backend/src/server.js:  *)
(* the session store (Upstash REST / ioredis / in-process Map), the        *)
(* history helpers, retrieval, the Gemini retry loop, the prompt and       *)
(* fallback builders and the HTTP handlers.                                *)
(*                                                                         *)
(* JavaScript strings that the code builds (template literals, join) are   *)
(* modelled as sequences of string tokens; concatenation is \o and the     *)
(* empty string is << >>.  Every handler is cut at its awaits: one action  *)
(* per completion of an awaited call.                                      *)
(***************************************************************************)
EXTENDS Integers, Sequences, FiniteSets, TLC

VARIABLES redis, QDRANT_OK, mem, ttl, now, req, written, scope, issued, ref

vars == <<redis, QDRANT_OK, mem, ttl, now, req, written, scope, issued, ref>>

(* ---------------- bounds of the model ---------------- *)
NumReq == 2
MaxTicks == 2
MaxLog == 2

(* ---------------- configuration ---------------- *)
TOP_K == 5
LLM_RETRIES == 3
LLM_RETRY_MS == 800
TTL_SECONDS == 60 * 60 * 24 * 7
JitterRange == 250
FallbackMax == 5

ReqIds == 1..NumReq
SessionIds == {"s1", "s2"}
RedisKinds == {"upstash", "ioredis", "memory"}

(* The clock advances in steps of half the TTL, so that a refresh of the   *)
(* TTL between two ticks can be told from a TTL fixed at creation.         *)
TickSeconds == TTL_SECONDS \div 2
NoTTL == -1

(* ---------------- small helpers ---------------- *)
Min(a, b) == IF a < b THEN a ELSE b

Str(n) == <<"0", "1", "2", "3", "4", "5", "6", "7", "8", "9">>[n + 1]

RECURSIVE Join(_, _)
Join(parts, sep) ==
  IF Len(parts) = 0 THEN << >>
  ELSE IF Len(parts) = 1 THEN parts[1]
  ELSE parts[1] \o <<sep>> \o Join(Tail(parts), sep)

IsSpace(tok) == tok \in {" ", "\n"}

RECURSIVE TrimStart(_)
TrimStart(s) ==
  IF Len(s) > 0 /\ IsSpace(s[1]) THEN TrimStart(Tail(s)) ELSE s

RECURSIVE TrimEnd(_)
TrimEnd(s) ==
  IF Len(s) > 0 /\ IsSpace(s[Len(s)]) THEN TrimEnd(SubSeq(s, 1, Len(s) - 1)) ELSE s

Trim(s) == TrimEnd(TrimStart(s))

(* Array.prototype.slice(s, end) for 0 <= s *)
Slice(arr, s, end) == SubSeq(arr, s + 1, Min(end, Len(arr)))

(* ---------------- Chat history helpers ---------------- *)
key_Shared(id) == <<"session:", "s1", ":messages">>

key(id) == <<"session:", id, ":messages">>

Keys == {key(id) : id \in SessionIds}

DateNow == now * 1000

JSONstringify(obj) == [json |-> obj]

IsString(x) == DOMAIN x = {"json"}

JSONparse(x) == x.json

NoExtra == [e \in {} |-> 0]

pushMsgBuild(role, content, extra) ==
  JSONstringify([role |-> role, content |-> content, ts |-> DateNow] @@ extra)

(* ---------------- the store: rpush / lrange / expire / del ------------- *)
(* ref: what a Redis server holds after the same successful calls: RPUSH   *)
(* appends, EXPIRE sets the time the key is dropped at (a no-op on a       *)
(* missing key), DEL removes the key, and the server drops a key whose     *)
(* time has come (refDrop)                                                 *)
NoLog == [log |-> << >>, due |-> -1]

refRpush(f, k, v) == [f EXCEPT ![k].log = Append(@, v)]

refExpire(f, k, sec) ==
  IF f[k].log = << >> THEN f ELSE [f EXCEPT ![k].due = now + sec]

refDel(f, k) == [f EXCEPT ![k] = NoLog]

refDrop(f, t) ==
  [k \in Keys |-> IF f[k].due # -1 /\ f[k].due <= t THEN NoLog ELSE f[k]]

StoreOutcomes == IF redis = "memory" THEN {TRUE} ELSE BOOLEAN

rpush_Lost(m, k, v) == m

rpush_Overwrites(m, k, v) == [m EXCEPT ![k] = <<v>>]

rpush_Prepends(m, k, v) == [m EXCEPT ![k] = <<v>> \o @]

rpush(m, k, v) == [m EXCEPT ![k] = Append(@, v)]

memLrange_DropsLast(m, k, s, e) ==
  LET arr == m[k]
      end == IF e = -1 THEN Len(arr) - 1 ELSE e + 1
  IN  Slice(arr, s, end)

memLrange(m, k, s, e) ==
  LET arr == m[k]
      end == IF e = -1 THEN Len(arr) ELSE e + 1
  IN  Slice(arr, s, end)

redisLrange(m, k, s, e) ==
  LET arr  == m[k]
      from == IF s < 0 THEN Len(arr) + s ELSE s
      to   == IF e < 0 THEN Len(arr) + e ELSE e
  IN  SubSeq(arr, from + 1, Min(to + 1, Len(arr)))

(* the Upstash client hands back JSON values already deserialised *)
lrange(m, k, s, e) ==
  IF redis = "memory" THEN memLrange(m, k, s, e)
  ELSE IF redis = "upstash"
       THEN LET arr == redisLrange(m, k, s, e)
            IN  [j \in 1..Len(arr) |-> JSONparse(arr[j])]
       ELSE redisLrange(m, k, s, e)

(* the in-memory expire does nothing; EXPIRE on a Redis server sets the     *)
(* time to live of an existing key and leaves a missing key alone          *)
expire(t, k, sec) ==
  IF redis = "memory" \/ mem[k] = << >> THEN t ELSE [t EXCEPT ![k] = now + sec]

del_Keeps(m, k) == m

del(m, k) == [m EXCEPT ![k] = << >>]

getHistory(m, id) ==
  LET arr == lrange(m, key(id), 0, -1)
  IN  [j \in 1..Len(arr) |-> IF IsString(arr[j]) THEN JSONparse(arr[j]) ELSE arr[j]]

(* ---------------- Qdrant ---------------- *)
Passage(n) ==
  [score |-> 10 - n, title |-> "title" \o Str(n), url |-> "url" \o Str(n),
   chunk |-> "chunk" \o Str(n)]

(* the ranking of the collection for a query, best first *)
Ranking == [n \in 1..(TOP_K + 1) |-> Passage(n)]

(* how many points of the collection match, per search *)
MatchCounts == IF scope.world = "full" THEN {0, 2, TOP_K + 1} ELSE {2}

qdrantResult(matches, topK) == SubSeq(Ranking, 1, Min(matches, topK))

(* ---------------- Gemini ---------------- *)
NoErr == [status |-> 0, code |-> 0]

GeminiErrors ==
  IF scope.world = "full"
  THEN { [status |-> 429, code |-> 429],
         [status |-> 503, code |-> 503],
         [status |-> 500, code |-> 503],
         [status |-> 401, code |-> 401],
         [status |-> 0,   code |-> 0] }
  ELSE { [status |-> 401, code |-> 401] }

RawTexts ==
  IF scope.world = "full"
  THEN { << >>, <<" ", "\n">>, <<" ", "answer", " ", "[S1]", "\n">> }
  ELSE { <<"answer">> }

(* Math.floor(Math.random() * 250): the two ends of the range *)
Jitters == IF scope.world = "full" THEN {0, JitterRange - 1} ELSE {0}

Retryable_AnyStatus(err) ==
  err.status # 0 \/ err.code = 429 \/ err.code = 503

Retryable(err) ==
  err.status = 429 \/ err.status = 503 \/ err.code = 429 \/ err.code = 503

(* ---------------- prompt and fallback ---------------- *)
buildPrompt(query, passages) ==
  LET block(i) == <<"# Source ", Str(i), " (", passages[i].title, ")\n",
                    passages[i].chunk, "\nURL: ", passages[i].url>>
      ctx == Join([i \in 1..Len(passages) |-> block(i)], "\n\n")
  IN  <<"You are a news assistant. Use ONLY the context below. If the answer is unknown, say you are unsure.\n\n## Context\n">>
      \o ctx
      \o <<"\n\n## Task\nQuestion: ">> \o query
      \o <<"\nAnswer clearly with citations like [S1], [S2] referring to the numbered sources.">>

busyFallback(query, passages) ==
  LET top  == Slice(passages, 0, FallbackMax)
      item(i) == <<"(bullet) [S", Str(i), "] ", top[i].title>>
      list == Join([i \in 1..Len(top) |-> item(i)], "\n")
  IN  <<"The model is busy right now. Here are relevant sources for (ldquo)">>
      \o query \o <<"(rdquo):\n\n">> \o list

Unsure == <<"I am unsure. None of the provided text answers that.">>

makeSources_ZeroBased(passages) ==
  [i \in 1..Len(passages) |->
     [id |-> i - 1, title |-> passages[i].title, url |-> passages[i].url]]

makeSources(passages) ==
  [i \in 1..Len(passages) |->
     [id |-> i, title |-> passages[i].title, url |-> passages[i].url]]

(* ---------------- requests ---------------- *)
Bodies ==
  { [fields |-> f, sessionId |-> s, message |-> m] :
      f \in SUBSET {"sessionId", "message"},
      s \in scope.sessions \cup {""},
      m \in { << >>, <<"q1">> } }

WellFormed(body) ==
  /\ ("sessionId" \notin body.fields => body.sessionId = "")
  /\ ("message" \notin body.fields => body.message = << >>)

NoSessionId(body) == "sessionId" \notin body.fields \/ body.sessionId = ""

NoMessage_OnlyMissing(body) == "message" \notin body.fields

NoMessage(body) == "message" \notin body.fields \/ body.message = << >>

NoRes == [error |-> "", answer |-> << >>, sources |-> << >>,
          messages |-> << >>, ok |-> FALSE]

NoBody == [fields |-> {}, sessionId |-> "", message |-> << >>]

IdleReq ==
  [op |-> "", pc |-> "idle", body |-> NoBody, sessionId |-> "", message |-> << >>,
   msg |-> JSONstringify(NoExtra),
   passages |-> << >>, prompt |-> << >>, i |-> 0, delay |-> 0,
   raw |-> << >>, err |-> NoErr, answer |-> << >>, sources |-> << >>,
   status |-> 0, res |-> NoRes, failedAt |-> "",
   sent |-> 0, appended |-> << >>, pos |-> << >>, intact |-> TRUE, embedCalls |-> 0, searchCalls |-> 0,
   genCalls |-> 0, waits |-> << >>, all429 |-> TRUE, genFailed |-> FALSE]

InitStore ==
  /\ redis \in RedisKinds
  /\ QDRANT_OK \in BOOLEAN
  /\ mem = [k \in Keys |-> << >>]
  /\ ttl = [k \in Keys |-> NoTTL]
  /\ now = 0
  /\ req = [r \in ReqIds |-> IdleReq]
  /\ written = [k \in Keys |-> << >>]
  /\ issued = {}
  /\ ref = [k \in Keys |-> NoLog]

(* scope: how many handlers may be in flight at once, the session ids the  *)
(* clients use, and whether the outside services (Qdrant, Gemini) show     *)
(* every modelled behaviour ("full") or one success and one failure each   *)
(* ("plain").  Here: one handler at a time on one session, every behaviour *)
(* of the services.                                                        *)
Init ==
  /\ InitStore
  /\ scope = [inflight |-> 1, sessions |-> {"s1"}, world |-> "full"]

(* ---------------- arrival of requests ---------------- *)
Free(rq) == rq.pc \in {"idle", "done"}

InFlight == {r \in ReqIds : ~Free(req[r])}

CanStart(r) ==
  /\ Free(req[r])
  /\ \A r2 \in ReqIds : Free(req[r2]) => r <= r2
  /\ Cardinality(InFlight) < scope.inflight

ChatsOn(id) == {r \in InFlight : req[r].op = "chat" /\ req[r].sessionId = id}

Room(id) == Len(mem[key(id)]) + 2 * (Cardinality(ChatsOn(id)) + 1) <= MaxLog * 2

(* intact: no successful reset and no expiry of the request's session log  *)
(* since the request arrived; Wiped clears it for the requests on the keys *)
(* ks, leaving other fields alone                                          *)
Wiped(rq, ks) ==
  [r \in ReqIds |->
     IF rq[r].op = "chat" /\ key(rq[r].sessionId) \in ks
     THEN [rq[r] EXCEPT !.intact = FALSE] ELSE rq[r]]

(* the catch clause of a handler; failedAt records the call that threw *)
FailAt(r, tag, at) ==
  [req EXCEPT ![r].pc = "done", ![r].status = 500, ![r].failedAt = at,
              ![r].sent = @ + 1,
              ![r].res = [NoRes EXCEPT !.error = tag]]

Fail500_Hangs(r, tag) == [req EXCEPT ![r].pc = "hung", ![r].failedAt = req[r].pc]

Fail500(r, tag) == FailAt(r, tag, req[r].pc)

(* POST /api/chat: validation, then pushMsg(sessionId, 'user', message) *)
ChatStart(r) ==
  /\ CanStart(r)
  /\ \E body \in Bodies :
       /\ WellFormed(body)
       /\ IF NoSessionId(body) \/ NoMessage(body)
          THEN req' = [req EXCEPT ![r] =
                         [IdleReq EXCEPT !.op = "chat", !.pc = "done", !.status = 400,
                            !.sent = 1,
                            !.body = body,
                            !.res = [NoRes EXCEPT !.error = "sessionId & message required"]]]
          ELSE /\ Room(body.sessionId)
               /\ req' = [req EXCEPT ![r] =
                            [IdleReq EXCEPT !.op = "chat", !.pc = "userRpush",
                               !.body = body,
                               !.sessionId = body.sessionId,
                               !.message = body.message,
                               !.msg = pushMsgBuild("user", body.message, NoExtra)]]
  /\ UNCHANGED <<redis, QDRANT_OK, mem, ttl, now, written, scope, issued, ref>>

(* completion of redis.rpush inside pushMsg *)
RpushDone(r, from, to) ==
  /\ req[r].pc = from
  /\ \E ok \in StoreOutcomes :
       IF ok
       THEN LET k     == key(req[r].sessionId)
                m2    == rpush(mem, k, req[r].msg)
                added == SubSeq(m2[k], Len(mem[k]) + 1, Len(m2[k]))
            IN  /\ mem' = m2
                /\ written' = [written EXCEPT ![k] = Append(@, JSONparse(req[r].msg))]
                /\ ref' = refRpush(ref, k, req[r].msg)
                /\ req' = [req EXCEPT ![r].pc = to,
                             ![r].appended = @ \o [j \in 1..Len(added) |-> JSONparse(added[j])],
                             ![r].pos = @ \o [j \in 1..Len(added) |-> Len(mem[k]) + j]]
       ELSE /\ req' = Fail500(r, "chat_failed")
            /\ UNCHANGED <<mem, written, ref>>
  /\ UNCHANGED <<redis, QDRANT_OK, ttl, now, scope, issued>>

UserRpush_Swallows(r) ==
  /\ req[r].pc = "userRpush"
  /\ \E ok \in StoreOutcomes :
       IF ok
       THEN /\ mem' = rpush(mem, key(req[r].sessionId), req[r].msg)
            /\ written' = [written EXCEPT ![key(req[r].sessionId)] =
                             Append(@, JSONparse(req[r].msg))]
            /\ ref' = refRpush(ref, key(req[r].sessionId), req[r].msg)
            /\ req' = [req EXCEPT ![r].pc = "userExpire",
                         ![r].appended = Append(@, JSONparse(req[r].msg)),
                         ![r].pos = Append(@, Len(mem'[key(req[r].sessionId)]))]
       ELSE /\ req' = [req EXCEPT ![r].pc = "userExpire", ![r].failedAt = "userRpush"]
            /\ UNCHANGED <<mem, written, ref>>
  /\ UNCHANGED <<redis, QDRANT_OK, ttl, now, scope, issued>>

UserRpush(r) == RpushDone(r, "userRpush", "userExpire")

(* completion of redis.expire of the user turn; qdrantSearch then checks   *)
(* its configuration and sends the embedding call                          *)
UserExpire(r) ==
  /\ req[r].pc = "userExpire"
  /\ \E ok \in StoreOutcomes :
       IF ok
       THEN /\ ttl' = expire(ttl, key(req[r].sessionId), TTL_SECONDS)
            /\ ref' = refExpire(ref, key(req[r].sessionId), TTL_SECONDS)
            /\ IF QDRANT_OK
               THEN req' = [req EXCEPT ![r].pc = "embed",
                              ![r].embedCalls = @ + 1]
               ELSE req' = FailAt(r, "chat_failed", "qdrantConfig")
       ELSE /\ req' = Fail500(r, "chat_failed")
            /\ UNCHANGED <<ttl, ref>>
  /\ UNCHANGED <<redis, QDRANT_OK, mem, now, written, scope, issued>>

EmbedDone_Degrades(r) ==
  /\ req[r].pc = "embed"
  /\ \E ok \in BOOLEAN :
       IF ok
       THEN req' = [req EXCEPT ![r].pc = "search", ![r].searchCalls = @ + 1]
       ELSE req' = [req EXCEPT ![r].pc = "gen", ![r].failedAt = "embed",
                      ![r].delay = LLM_RETRY_MS, ![r].genCalls = @ + 1]
  /\ UNCHANGED <<redis, QDRANT_OK, mem, ttl, now, written, scope, issued, ref>>

(* completion of the embedding call of qdrantSearch; the search call is   *)
(* sent next                                                               *)
EmbedDone(r) ==
  /\ req[r].pc = "embed"
  /\ \E ok \in BOOLEAN :
       IF ok
       THEN req' = [req EXCEPT ![r].pc = "search", ![r].searchCalls = @ + 1]
       ELSE req' = Fail500(r, "chat_failed")
  /\ UNCHANGED <<redis, QDRANT_OK, mem, ttl, now, written, scope, issued, ref>>

(* first iteration of the loop of askGemini: the loop test, then the call  *)
askGeminiEnter(rq) ==
  IF 0 < LLM_RETRIES
  THEN [rq EXCEPT !.pc = "gen", !.delay = LLM_RETRY_MS, !.i = 0,
                  !.genCalls = @ + 1]
  ELSE [rq EXCEPT !.pc = "genThrew", !.delay = LLM_RETRY_MS, !.i = 0,
                  !.genFailed = TRUE]

(* completion of the search call; buildPrompt; askGemini is entered *)
SearchDone(r) ==
  /\ req[r].pc = "search"
  /\ \/ \E matches \in MatchCounts :
          LET passages == qdrantResult(matches, TOP_K)
          IN  req' = [req EXCEPT ![r] = askGeminiEnter(
                        [@ EXCEPT !.passages = passages,
                                  !.prompt = buildPrompt(req[r].message, passages)])]
     \/ req' = Fail500(r, "chat_failed")
  /\ UNCHANGED <<redis, QDRANT_OK, mem, ttl, now, written, scope, issued, ref>>

(* askGeminiRaw returned a text *)
GenOk(r) ==
  /\ req[r].pc = "gen"
  /\ \E text \in RawTexts :
       req' = [req EXCEPT ![r].pc = "genReturned", ![r].raw = text,
                              ![r].all429 = FALSE]
  /\ UNCHANGED <<redis, QDRANT_OK, mem, ttl, now, written, scope, issued, ref>>

askGeminiCatch_OneShort(rq, err, jitter) ==
  IF Retryable(err) /\ rq.i < LLM_RETRIES - 2
  THEN [rq EXCEPT !.pc = "sleep", !.err = err,
                  !.waits = Append(@, rq.delay + jitter),
                  !.all429 = @ /\ err.status = 429]
  ELSE [rq EXCEPT !.pc = "genThrew", !.err = err, !.genFailed = TRUE,
                  !.all429 = @ /\ err.status = 429]

(* the catch clause of askGemini *)
askGeminiCatch(rq, err, jitter) ==
  IF Retryable(err) /\ rq.i < LLM_RETRIES - 1
  THEN [rq EXCEPT !.pc = "sleep", !.err = err,
                  !.waits = Append(@, rq.delay + jitter),
                  !.all429 = @ /\ err.status = 429]
  ELSE [rq EXCEPT !.pc = "genThrew", !.err = err, !.genFailed = TRUE,
                  !.all429 = @ /\ err.status = 429]

(* askGeminiRaw threw *)
GenErr(r) ==
  /\ req[r].pc = "gen"
  /\ \E err \in GeminiErrors, jitter \in Jitters :
       req' = [req EXCEPT ![r] = askGeminiCatch(@, err, jitter)]
  /\ UNCHANGED <<redis, QDRANT_OK, mem, ttl, now, written, scope, issued, ref>>

GenWake_NoDouble(r) ==
  /\ req[r].pc = "sleep"
  /\ req' = [req EXCEPT ![r].i = @ + 1,
               ![r].pc = IF req[r].i + 1 < LLM_RETRIES THEN "gen" ELSE "genThrew",
               ![r].genCalls = IF req[r].i + 1 < LLM_RETRIES THEN @ + 1 ELSE @,
               ![r].genFailed = ~(req[r].i + 1 < LLM_RETRIES)]
  /\ UNCHANGED <<redis, QDRANT_OK, mem, ttl, now, written, scope, issued, ref>>

(* the sleep is over: delay *= 2; continue; i++; loop test; next call *)
GenWake(r) ==
  /\ req[r].pc = "sleep"
  /\ req' = [req EXCEPT ![r].delay = @ * 2, ![r].i = @ + 1,
               ![r].pc = IF req[r].i + 1 < LLM_RETRIES THEN "gen" ELSE "genThrew",
               ![r].genCalls = IF req[r].i + 1 < LLM_RETRIES THEN @ + 1 ELSE @,
               ![r].genFailed = ~(req[r].i + 1 < LLM_RETRIES)]
  /\ UNCHANGED <<redis, QDRANT_OK, mem, ttl, now, written, scope, issued, ref>>

(* the extra fields the chat handler passes to pushMsg for the assistant   *)
(* turn: none                                                              *)
assistantExtra(sources) == NoExtra

chatPushAssistant(rq, answer) ==
  LET sources == makeSources(rq.passages)
  IN  [rq EXCEPT !.pc = "asstRpush", !.answer = answer, !.sources = sources,
                 !.msg = pushMsgBuild("assistant", answer, assistantExtra(sources)),
                 !.i = 0, !.delay = 0, !.err = NoErr, !.raw = << >>,
                 !.waits = << >>, !.all429 = TRUE]

(* askGemini returned: answer = raw?.trim() || unsure *)
ChatAnswer(r) ==
  /\ req[r].pc = "genReturned"
  /\ LET trimmed == Trim(req[r].raw)
         answer  == IF trimmed = << >> THEN Unsure ELSE trimmed
     IN  req' = [req EXCEPT ![r] = chatPushAssistant(@, answer)]
  /\ UNCHANGED <<redis, QDRANT_OK, mem, ttl, now, written, scope, issued, ref>>

(* askGemini threw: answer = busyFallback(message, passages) *)
ChatFallback(r) ==
  /\ req[r].pc = "genThrew"
  /\ req' = [req EXCEPT ![r] =
               chatPushAssistant(@, busyFallback(@.message, @.passages))]
  /\ UNCHANGED <<redis, QDRANT_OK, mem, ttl, now, written, scope, issued, ref>>

AsstRpush(r) == RpushDone(r, "asstRpush", "asstExpire")

(* completion of redis.expire of the assistant turn; res.json *)
AsstExpire(r) ==
  /\ req[r].pc = "asstExpire"
  /\ \E ok \in StoreOutcomes :
       IF ok
       THEN /\ ttl' = expire(ttl, key(req[r].sessionId), TTL_SECONDS)
            /\ ref' = refExpire(ref, key(req[r].sessionId), TTL_SECONDS)
            /\ req' = [req EXCEPT ![r].pc = "done", ![r].status = 200,
                         ![r].sent = @ + 1,
                         ![r].res = [NoRes EXCEPT !.answer = req[r].answer,
                                                  !.sources = req[r].sources]]
       ELSE /\ req' = Fail500(r, "chat_failed")
            /\ UNCHANGED <<ttl, ref>>
  /\ UNCHANGED <<redis, QDRANT_OK, mem, now, written, scope, issued>>

(* GET /api/history/:id: getHistory is called *)
HistoryStart(r) ==
  /\ CanStart(r)
  /\ \E id \in scope.sessions :
       req' = [req EXCEPT ![r] =
                 [IdleReq EXCEPT !.op = "history", !.pc = "lrange", !.sessionId = id]]
  /\ UNCHANGED <<redis, QDRANT_OK, mem, ttl, now, written, scope, issued, ref>>

(* completion of redis.lrange; res.json *)
HistoryDone(r) ==
  /\ req[r].pc = "lrange"
  /\ \E ok \in StoreOutcomes :
       IF ok
       THEN req' = [req EXCEPT ![r].pc = "done", ![r].status = 200,
                      ![r].sent = @ + 1,
                      ![r].res = [NoRes EXCEPT !.messages =
                                    getHistory(mem, req[r].sessionId)]]
       ELSE req' = Fail500(r, "history_failed")
  /\ UNCHANGED <<redis, QDRANT_OK, mem, ttl, now, written, scope, issued, ref>>

(* POST /api/reset/:id: resetSession is called *)
ResetStart(r) ==
  /\ CanStart(r)
  /\ \E id \in scope.sessions :
       req' = [req EXCEPT ![r] =
                 [IdleReq EXCEPT !.op = "reset", !.pc = "del", !.sessionId = id]]
  /\ UNCHANGED <<redis, QDRANT_OK, mem, ttl, now, written, scope, issued, ref>>

(* completion of redis.del; res.json *)
ResetDone(r) ==
  /\ req[r].pc = "del"
  /\ \E ok \in StoreOutcomes :
       IF ok
       THEN /\ mem' = del(mem, key(req[r].sessionId))
            /\ ttl' = [ttl EXCEPT ![key(req[r].sessionId)] = NoTTL]
            /\ written' = [written EXCEPT ![key(req[r].sessionId)] = << >>]
            /\ ref' = refDel(ref, key(req[r].sessionId))
            /\ req' = Wiped([req EXCEPT ![r].pc = "done", ![r].status = 200,
                                ![r].sent = @ + 1,
                                ![r].res = [NoRes EXCEPT !.ok = TRUE]],
                             {key(req[r].sessionId)})
       ELSE /\ req' = Fail500(r, "reset_failed")
            /\ UNCHANGED <<mem, ttl, written, ref>>
  /\ UNCHANGED <<redis, QDRANT_OK, now, scope, issued>>

(* time passes (Date.now and the clock of the Redis server never go back); *)
(* a Redis server drops the keys whose TTL has elapsed                     *)
Expired(k, t) == ttl[k] # NoTTL /\ ttl[k] <= t

Tick ==
  /\ now + TickSeconds <= MaxTicks * TickSeconds
  /\ now' = now + TickSeconds
  /\ mem' = [k \in Keys |-> IF Expired(k, now') THEN << >> ELSE mem[k]]
  /\ written' = [k \in Keys |-> IF Expired(k, now') THEN << >> ELSE written[k]]
  /\ ttl' = [k \in Keys |-> IF Expired(k, now') THEN NoTTL ELSE ttl[k]]
  /\ ref' = refDrop(ref, now')
  /\ req' = Wiped(req, {k \in Keys : Expired(k, now')})
  /\ UNCHANGED <<redis, QDRANT_OK, scope, issued>>

Next ==
  \/ \E r \in ReqIds : ChatStart(r)
  \/ \E r \in ReqIds : UserRpush(r)
  \/ \E r \in ReqIds : UserExpire(r)
  \/ \E r \in ReqIds : EmbedDone(r)
  \/ \E r \in ReqIds : SearchDone(r)
  \/ \E r \in ReqIds : GenOk(r)
  \/ \E r \in ReqIds : GenErr(r)
  \/ \E r \in ReqIds : GenWake(r)
  \/ \E r \in ReqIds : ChatAnswer(r)
  \/ \E r \in ReqIds : ChatFallback(r)
  \/ \E r \in ReqIds : AsstRpush(r)
  \/ \E r \in ReqIds : AsstExpire(r)
  \/ \E r \in ReqIds : HistoryStart(r)
  \/ \E r \in ReqIds : HistoryDone(r)
  \/ \E r \in ReqIds : ResetStart(r)
  \/ \E r \in ReqIds : ResetDone(r)
  \/ Tick

Spec == Init /\ [][Next]_vars
(***************************************************************************)
(* Properties of the chat handler                                          *)
(***************************************************************************)
ChatDone(r) == req[r].op = "chat" /\ req[r].pc = "done"

ValidInput(r) ==
  /\ req[r].body.fields = {"sessionId", "message"}
  /\ req[r].body.sessionId # ""
  /\ req[r].body.message # << >>

TwoAppended(r) ==
  /\ Len(req[r].appended) = 2
  /\ req[r].appended[1].role = "user"
  /\ req[r].appended[1].content = req[r].body.message
  /\ req[r].appended[2].role = "assistant"
  /\ req[r].appended[2].ts >= req[r].appended[1].ts

(* C1, as stated: every chat request with a non-empty sessionId and a      *)
(* non-empty message has, by the time it responds, appended exactly two    *)
(* messages to the log, the user turn and then the assistant turn, the     *)
(* second with a timestamp not smaller than the first.                     *)
C1_EveryValidRequestAppendsTwo ==
  \A r \in ReqIds : (ChatDone(r) /\ ValidInput(r)) => TwoAppended(r)

(* C1, amended: every chat request that responds with HTTP 200 has         *)
(* appended exactly two messages, user then assistant, with non-decreasing *)
(* timestamps; a request that ends otherwise has appended at most these    *)
(* two, the user turn first.                                               *)
C1_OkRequestAppendsTwo ==
  \A r \in ReqIds :
    req[r].op = "chat" =>
      /\ (ChatDone(r) /\ req[r].status = 200) => TwoAppended(r)
      /\ Len(req[r].appended) <= 2
      /\ Len(req[r].appended) >= 1 => req[r].appended[1].role = "user"
      /\ Len(req[r].appended) = 2 => req[r].appended[2].role = "assistant"

C1_Witness ==
  \E r \in ReqIds :
    /\ ChatDone(r) /\ req[r].status = 200
    /\ Len(req[r].appended) = 2
    /\ req[r].appended[2].ts > req[r].appended[1].ts

(* the titles a fallback answer lists, by citation number: the token after *)
(* "[S<n>] "                                                               *)
FallbackTags(answer) ==
  {j \in 1..Len(answer) : answer[j] = "(bullet) [S"}

FallbackTitle(answer, n) ==
  LET j == CHOOSE j \in FallbackTags(answer) : answer[j + 1] = Str(n)
  IN  answer[j + 3]

ListsSources(answer, passages) ==
  /\ Cardinality(FallbackTags(answer)) >= 1
  /\ Cardinality(FallbackTags(answer)) <= 5
  /\ \A j \in FallbackTags(answer) :
        \E n \in 1..Len(passages) :
          /\ answer[j + 1] = Str(n)
          /\ answer[j + 2] = "] "
          /\ answer[j + 3] = passages[n].title

(* C2: when retrieval succeeded and the generation call failed on every    *)
(* attempt, the chat request responds with HTTP 200 and a non-empty answer *)
(* which, when passages were retrieved, lists between one and five of      *)
(* their titles, each tagged [S<i>].                                       *)
C2_DegradedIs200 ==
  \A r \in ReqIds :
    (ChatDone(r) /\ req[r].genFailed) =>
      /\ req[r].status = 200
      /\ req[r].res.answer # << >>
      /\ req[r].passages # << >> => ListsSources(req[r].res.answer, req[r].passages)

(* C3: every assistant message a chat request appended carries a sources   *)
(* list equal to the sources derived from the passages of that request.    *)
C3_AssistantCarriesSources ==
  \A r \in ReqIds : \A j \in 1..Len(req[r].appended) :
    req[r].appended[j].role = "assistant" =>
      /\ "sources" \in DOMAIN req[r].appended[j]
      /\ req[r].appended[j].sources = makeSources(req[r].passages)

(* C4: once the answer has been computed, a failure of the store append of *)
(* the assistant turn does not turn the response into an error: the        *)
(* request ends with HTTP 200, that answer and the sources.                *)
C4_PersistFailureStill200 ==
  \A r \in ReqIds :
    (ChatDone(r) /\ req[r].answer # << >>) =>
      /\ req[r].status = 200
      /\ req[r].res.answer = req[r].answer
      /\ req[r].res.sources = req[r].sources

MissingOrEmpty(body) ==
  \/ "sessionId" \notin body.fields \/ body.sessionId = ""
  \/ "message" \notin body.fields \/ body.message = << >>

(* C5: a chat request whose sessionId or message is missing or empty is    *)
(* answered with 400 {error: "sessionId & message required"} and has no    *)
(* side effect: nothing is appended to a log and no embedding, search or   *)
(* generation call is made.                                                *)
C5_InvalidRequestNoEffect ==
  \A r \in ReqIds :
    (req[r].op = "chat" /\ MissingOrEmpty(req[r].body)) =>
      /\ req[r].pc = "done"
      /\ req[r].status = 400
      /\ req[r].res.error = "sessionId & message required"
      /\ req[r].appended = << >>
      /\ req[r].embedCalls = 0 /\ req[r].searchCalls = 0 /\ req[r].genCalls = 0

C5_Witness ==
  \E r \in ReqIds :
    /\ ChatDone(r) /\ req[r].status = 400
    /\ req[r].body.fields = {"sessionId", "message"}
    /\ req[r].body.message = << >>
    /\ req[r].body.sessionId # ""
(***************************************************************************)
(* Properties of the retry loop of askGemini                               *)
(***************************************************************************)
InAskGemini(r) == req[r].pc \in {"gen", "sleep", "genReturned", "genThrew"}

(* C6: when the provider answers every call with 429, one call of          *)
(* askGemini makes exactly LLM_RETRIES calls and then fails, and the wait  *)
(* before the second call is at least LLM_RETRY_MS.                        *)
C6_Always429ExactlyRetries ==
  \A r \in ReqIds :
    (InAskGemini(r) /\ req[r].all429) =>
      /\ req[r].genCalls <= LLM_RETRIES
      /\ req[r].pc # "genReturned"
      /\ req[r].pc = "genThrew" => req[r].genCalls = LLM_RETRIES
      /\ req[r].genCalls >= 2 => req[r].waits[1] >= LLM_RETRY_MS
      /\ Len(req[r].waits) = IF req[r].pc = "sleep" THEN req[r].genCalls
                              ELSE req[r].genCalls - 1

C6_Witness ==
  \E r \in ReqIds :
    /\ req[r].pc = "genThrew" /\ req[r].all429
    /\ req[r].genCalls = LLM_RETRIES
    /\ Len(req[r].waits) = LLM_RETRIES - 1

RetryClass(err) ==
  err.status \in {429, 503} \/ err.code \in {429, 503}

(* C7: askGemini makes a further attempt only after a failure whose HTTP   *)
(* status or embedded error code is 429 or 503; after any other failure it *)
(* makes no further call and propagates the failure at once, at whatever   *)
(* attempt it occurred.                                                    *)
C7_RetryOnlyOn429Or503 ==
  [][\A r \in ReqIds :
       /\ (req[r].pc = "gen" /\ req'[r].pc \in {"sleep", "genThrew"}
             /\ ~RetryClass(req'[r].err))
            => (req'[r].pc = "genThrew" /\ req'[r].genCalls = req[r].genCalls)
       /\ (req'[r].genCalls > req[r].genCalls /\ req[r].genCalls >= 1)
            => (req[r].pc = "sleep" /\ RetryClass(req[r].err))
       /\ req[r].pc = "genThrew" => req'[r].genCalls <= req[r].genCalls
    ]_vars

C7_Witness ==
  \E r \in ReqIds :
    /\ req[r].pc = "genThrew"
    /\ ~RetryClass(req[r].err)
    /\ req[r].genCalls = 2

(***************************************************************************)
(* Citation numbering                                                      *)
(***************************************************************************)
PromptBlocks(prompt) == {j \in 1..Len(prompt) : prompt[j] = "# Source "}

(* the passage the prompt renders as "Source n": its title, chunk and url  *)
PromptSource(prompt, n) ==
  LET j == CHOOSE j \in PromptBlocks(prompt) : prompt[j + 1] = Str(n)
  IN  [title |-> prompt[j + 3], chunk |-> prompt[j + 5], url |-> prompt[j + 7]]

(* C8: in every 200 response of a chat request the sources are one per     *)
(* retrieved passage in retrieval order, the n-th with id n, and source n  *)
(* is the passage the prompt renders as "Source n" and the fallback answer *)
(* tags [Sn], whether the answer was generated or is the fallback.         *)
C8_CitationConsistency ==
  \A r \in ReqIds :
    (ChatDone(r) /\ req[r].status = 200) =>
      LET sources == req[r].res.sources
          answer  == req[r].res.answer
      IN  /\ Len(sources) = Len(req[r].passages)
          /\ Cardinality(PromptBlocks(req[r].prompt)) = Len(sources)
          /\ \A n \in 1..Len(sources) :
                /\ sources[n].id = n
                /\ sources[n].title = req[r].passages[n].title
                /\ sources[n].url = req[r].passages[n].url
                /\ \E j \in PromptBlocks(req[r].prompt) :
                      req[r].prompt[j + 1] = Str(sources[n].id)
                /\ PromptSource(req[r].prompt, sources[n].id).title = sources[n].title
                /\ PromptSource(req[r].prompt, sources[n].id).url = sources[n].url
          /\ req[r].genFailed =>
                /\ Cardinality(FallbackTags(answer)) = Min(Len(sources), 5)
                /\ \A n \in 1..Min(Len(sources), 5) :
                      /\ \E j \in FallbackTags(answer) : answer[j + 1] = Str(sources[n].id)
                      /\ FallbackTitle(answer, sources[n].id) = sources[n].title

C8_Witness ==
  \E r \in ReqIds :
    /\ ChatDone(r) /\ req[r].status = 200 /\ req[r].genFailed
    /\ Len(req[r].res.sources) = TOP_K
(***************************************************************************)
(* History and reset                                                       *)
(***************************************************************************)
HistoryResponds(r) ==
  req[r].op = "history" /\ req[r].pc = "lrange" /\ req'[r].pc = "done"

(* C9: after any sequence of successful appends to one session with no     *)
(* reset or expiry in between, GET /api/history/:id returns exactly those  *)
(* messages in append order, each as it was written; for a session that    *)
(* was never written it returns the empty sequence.                        *)
C9_HistoryRoundTrip ==
  [][\A r \in ReqIds :
       (HistoryResponds(r) /\ req'[r].status = 200) =>
          req'[r].res.messages = written[key(req[r].sessionId)]
    ]_vars

C9_Witness ==
  \E r \in ReqIds :
    /\ req[r].op = "history" /\ req[r].pc = "done" /\ req[r].status = 200
    /\ req[r].res.messages = written[key(req[r].sessionId)]
    /\ Len(req[r].res.messages) >= 3
    /\ req[r].res.messages[2].role = "assistant"
    /\ req[r].res.messages[3].role = "user"

ResetResponds(r) ==
  req[r].op = "reset" /\ req[r].pc = "del" /\ req'[r].pc = "done"

Absent(id) == mem[key(id)] = << >>

AppendsTo(id) ==
  \E r \in ReqIds :
    /\ req[r].sessionId = id
    /\ \/ req[r].pc = "userRpush" /\ req'[r].pc = "userExpire"
       \/ req[r].pc = "asstRpush" /\ req'[r].pc = "asstExpire"

EmptyUntilAppend ==
  \A id \in SessionIds :
    (getHistory(mem, id) = << >> /\ getHistory(mem', id) # << >>) => AppendsTo(id)

(* C10, as stated: reset on a session whose log is already absent returns  *)
(* {ok: true} without error and leaves the store unchanged, and after any  *)
(* reset the history of the session is empty until the next append.        *)
C10_ResetNeverErrors ==
  [][/\ \A r \in ReqIds :
          ResetResponds(r) =>
            /\ Absent(req[r].sessionId) =>
                  /\ req'[r].status = 200 /\ req'[r].res.ok
                  /\ mem' = mem /\ ttl' = ttl
            /\ getHistory(mem', req[r].sessionId) = << >>
     /\ EmptyUntilAppend
    ]_vars

(* C10, amended: reset on a session whose log is already absent leaves the *)
(* store unchanged and returns {ok: true}, unless the store call itself    *)
(* fails, which is answered with 500 {error: "reset_failed"} and leaves    *)
(* the store unchanged too; after any reset that returned {ok: true} the   *)
(* history of the session is empty until the next append.                  *)
C10_ResetIdempotent ==
  [][/\ \A r \in ReqIds :
          ResetResponds(r) =>
            /\ Absent(req[r].sessionId) => (mem' = mem /\ ttl' = ttl)
            /\ \/ /\ req'[r].status = 200 /\ req'[r].res.ok
                  /\ getHistory(mem', req[r].sessionId) = << >>
               \/ /\ req'[r].status = 500 /\ req'[r].res.error = "reset_failed"
                  /\ redis # "memory"
                  /\ mem' = mem /\ ttl' = ttl
     /\ EmptyUntilAppend
    ]_vars

C10_Witness ==
  \E r \in ReqIds :
    /\ req[r].op = "reset" /\ req[r].pc = "done"
    /\ req[r].status = 200 /\ req[r].res.ok
    /\ written[key(req[r].sessionId)] = << >>
    /\ getHistory(mem, req[r].sessionId) = << >>
    /\ now > 0
(***************************************************************************)
(* Order of the steps of the chat handler                                  *)
(***************************************************************************)
RetrievalFailed(r) == req[r].failedAt \in {"qdrantConfig", "embed", "search"}

UserPushFailed(r) == req[r].failedAt \in {"userRpush", "userExpire"}

NoAssistantAppended(r) ==
  \A j \in 1..Len(req[r].appended) : req[r].appended[j].role # "assistant"

(* C11: when retrieval fails in a chat request (configuration missing,     *)
(* embedding call or search call throws) the request ends with a 500       *)
(* response, the generation model is never called in it and no assistant   *)
(* message is appended; the generation model is called only after          *)
(* retrieval has returned successfully.                                    *)
C11_RetrievalFailureAborts ==
  \A r \in ReqIds :
    req[r].op = "chat" =>
      /\ RetrievalFailed(r) =>
            /\ req[r].pc = "done" /\ req[r].status = 500
            /\ req[r].res.error = "chat_failed"
            /\ req[r].genCalls = 0
            /\ NoAssistantAppended(r)
      /\ req[r].genCalls >= 1 =>
            /\ req[r].failedAt \notin {"qdrantConfig", "embed", "search"}
            /\ req[r].embedCalls = 1 /\ req[r].searchCalls = 1
            /\ req[r].pc \notin {"userRpush", "userExpire", "embed", "search"}

C11_Witness ==
  \E r \in ReqIds :
    /\ ChatDone(r) /\ req[r].failedAt = "search"
    /\ req[r].status = 500 /\ Len(req[r].appended) = 1

(* C12: the append of the user message is attempted before any retrieval   *)
(* or generation call, and when it fails the request ends with a 500       *)
(* response without any retrieval call, generation call or assistant       *)
(* append.                                                                 *)
C12_UserAppendFirst ==
  \A r \in ReqIds :
    req[r].op = "chat" =>
      /\ UserPushFailed(r) =>
            /\ req[r].pc = "done" /\ req[r].status = 500
            /\ req[r].embedCalls = 0 /\ req[r].searchCalls = 0
            /\ req[r].genCalls = 0
            /\ NoAssistantAppended(r)
      /\ (req[r].embedCalls + req[r].searchCalls + req[r].genCalls >= 1) =>
            /\ Len(req[r].appended) >= 1
            /\ req[r].appended[1].role = "user"
            /\ ~UserPushFailed(r)

C12_Witness ==
  \E r \in ReqIds :
    /\ ChatDone(r) /\ req[r].failedAt = "userExpire"
    /\ req[r].status = 500 /\ Len(req[r].appended) = 1
(***************************************************************************)
(* Session identifiers                                                     *)
(***************************************************************************)
(* POST /api/session/new answers with a new uuidv4 (taken to differ from   *)
(* every identifier issued before); the server keeps no record of it       *)
SessionNew ==
  /\ \E id \in SessionIds \ issued : issued' = issued \cup {id}
  /\ UNCHANGED <<redis, QDRANT_OK, mem, ttl, now, req, written, scope, ref>>

(* C13: every session log that exists in the store is keyed by an          *)
(* identifier that an earlier POST /api/session/new returned; a chat       *)
(* request never creates a log under an identifier the server did not      *)
(* issue.                                                                  *)
C13_LogsOnlyUnderIssuedIds ==
  \A id \in SessionIds : mem[key(id)] # << >> => id \in issued
(***************************************************************************)
(* Concurrent requests                                                     *)
(***************************************************************************)
(* every slot may hold a request in flight, on either of two sessions; the *)
(* handlers interleave at their awaits; each slot serves one request, the  *)
(* clock stands still, and the model never answers with a retryable        *)
(* failure, so that no handler sleeps                                      *)
InitConc ==
  /\ InitStore
  /\ scope = [inflight |-> NumReq, sessions |-> SessionIds, world |-> "plain"]

NextConc ==
  \/ \E r \in ReqIds : req[r].pc = "idle" /\ ChatStart(r)
  \/ \E r \in ReqIds : UserRpush(r)
  \/ \E r \in ReqIds : UserExpire(r)
  \/ \E r \in ReqIds : EmbedDone(r)
  \/ \E r \in ReqIds : SearchDone(r)
  \/ \E r \in ReqIds : GenOk(r)
  \/ \E r \in ReqIds : GenErr(r)
  \/ \E r \in ReqIds : ChatAnswer(r)
  \/ \E r \in ReqIds : ChatFallback(r)
  \/ \E r \in ReqIds : AsstRpush(r)
  \/ \E r \in ReqIds : AsstExpire(r)
  \/ \E r \in ReqIds : req[r].pc = "idle" /\ HistoryStart(r)
  \/ \E r \in ReqIds : HistoryDone(r)
  \/ \E r \in ReqIds : req[r].pc = "idle" /\ ResetStart(r)
  \/ \E r \in ReqIds : ResetDone(r)

SpecConc == InitConc /\ [][NextConc]_vars

(* the chat requests that arrived on session id since its log was last     *)
(* reset or dropped                                                        *)
IntactChats(id) ==
  {r \in ReqIds : req[r].op = "chat" /\ req[r].intact /\ req[r].sessionId = id}

Range(f) == {f[j] : j \in DOMAIN f}

Ok200(r) == ChatDone(r) /\ req[r].status = 200

(* C14: under any interleaving of concurrent chat requests on one session  *)
(* key, with no reset in between, every append that returned successfully  *)
(* is in the session's log at the place it was made, no two appends share  *)
(* a place, the log holds both messages of every request that answered     *)
(* 200, and each request's user message precedes its assistant message.    *)
C14_NoLostWrites ==
  \A id \in SessionIds :
    LET log == mem[key(id)] IN
    /\ \A r \in IntactChats(id) :
         /\ Len(req[r].pos) = Len(req[r].appended)
         /\ \A j \in 1..Len(req[r].pos) :
              /\ req[r].pos[j] \in 1..Len(log)
              /\ log[req[r].pos[j]] = JSONstringify(req[r].appended[j])
              /\ j > 1 => req[r].pos[j - 1] < req[r].pos[j]
         /\ Ok200(r) =>
              /\ Len(req[r].appended) = 2
              /\ req[r].appended[1].role = "user"
              /\ req[r].appended[2].role = "assistant"
    /\ \A r1, r2 \in IntactChats(id) :
         r1 # r2 => Range(req[r1].pos) \cap Range(req[r2].pos) = {}
    /\ Len(log) >= 2 * Cardinality({r \in IntactChats(id) : Ok200(r)})

C14_Witness ==
  \E r1, r2 \in ReqIds :
    /\ r1 # r2 /\ Ok200(r1) /\ Ok200(r2)
    /\ req[r1].intact /\ req[r2].intact
    /\ req[r1].sessionId = "s1" /\ req[r2].sessionId = "s1"
    /\ req[r1].pos = <<1, 3>> /\ req[r2].pos = <<2, 4>>
    /\ Len(mem[key("s1")]) = 4

(* the handler in slot r takes the step *)
StepOf(r) == req'[r].pc # req[r].pc

(* C15: a step of a chat, history or reset request on session A leaves the *)
(* log (and its time to live) of every other session B unchanged, under    *)
(* any interleaving of concurrent requests on different session keys.      *)
C15_NoCrossSession ==
  [][\A r \in ReqIds : \A b \in SessionIds :
       (StepOf(r) /\ req'[r].sessionId # b) =>
          /\ mem'[key(b)] = mem[key(b)]
          /\ ttl'[key(b)] = ttl[key(b)]]_vars

C15_Witness ==
  \E r1, r2 \in ReqIds :
    /\ Ok200(r1) /\ req[r1].sessionId = "s1" /\ req[r1].pos = <<1, 2>>
    /\ Ok200(r2) /\ req[r2].sessionId = "s2" /\ req[r2].pos = <<1, 2>>
    /\ Len(mem[key("s1")]) = 2 /\ Len(mem[key("s2")]) = 2
(***************************************************************************)
(* Time to live of the session logs                                        *)
(***************************************************************************)
(* the step completes redis.expire of pushMsg without a throw *)
PushMsgReturns(r) ==
  /\ req[r].pc \in {"userExpire", "asstExpire"}
  /\ StepOf(r)
  /\ req'[r].failedAt \notin {"userExpire", "asstExpire"}

(* C16: sliding TTL: every successful append to a session's log sets the   *)
(* expiry of that log to 7 days after the append.                          *)
C16_SlidingTTL ==
  [][\A r \in ReqIds :
       (PushMsgReturns(r) /\ mem[key(req[r].sessionId)] # << >>) =>
          ttl'[key(req[r].sessionId)] = now + TTL_SECONDS]_vars

(* readAll on a Redis backend after the same calls: LRANGE 0 -1 of the     *)
(* reference log, each element parsed                                      *)
refHistory(id) ==
  LET arr == ref[key(id)].log
  IN  [j \in 1..Len(arr) |-> JSONparse(arr[j])]

(* C17: the three session-store backends have identical observable         *)
(* behaviour: after every sequence of append, readAll, reset and passage   *)
(* of time, readAll on the backend in use returns the same sequence as on  *)
(* a Redis backend, the empty sequence once the TTL has elapsed included.  *)
C17_BackendsAgree ==
  \A id \in SessionIds : getHistory(mem, id) = refHistory(id)
(***************************************************************************)
(* Growth of the session logs                                              *)
(***************************************************************************)
IsPrefix(s, t) == Len(s) <= Len(t) /\ SubSeq(t, 1, Len(s)) = s

(* the step is the successful completion of a reset of key k *)
ResetOf(k) ==
  \E r \in ReqIds :
    /\ req[r].op = "reset" /\ req[r].pc = "del" /\ key(req[r].sessionId) = k
    /\ req'[r].pc = "done" /\ req'[r].status = 200

(* the step is a passage of time at which the TTL of key k has elapsed *)
ExpiryOf(k) == now' > now /\ Expired(k, now')

(* C18: a session's log only grows until it is reset or expires: over      *)
(* every step that is neither a reset nor an expiry of the session, the    *)
(* earlier log is a prefix of the later log, so no step (a chat request    *)
(* that fails after recording the user turn included) removes, reorders or *)
(* rewrites a stored message.                                              *)
C18_LogOnlyGrows ==
  [][\A k \in Keys :
       \/ IsPrefix(mem[k], mem'[k])
       \/ mem'[k] = << >> /\ (ResetOf(k) \/ ExpiryOf(k))]_vars

C18_Witness ==
  \E r \in ReqIds :
    /\ ChatDone(r) /\ req[r].status = 500 /\ req[r].failedAt = "embed"
    /\ req[r].intact /\ req[r].pos = <<2>>
    /\ Len(mem[key(req[r].sessionId)]) = 2
    /\ mem[key(req[r].sessionId)][2] = JSONstringify(req[r].appended[1])
(***************************************************************************)
(* Backoff of askGemini                                                    *)
(***************************************************************************)
(* C19: in askGemini the wait before the j-th retry is                     *)
(* LLM_RETRY_MS * 2^(j-1) plus a jitter in [0, 250) ms; there are at most  *)
(* LLM_RETRIES - 1 waits, and no wait is made after the last attempt or    *)
(* after a failure that is not retried (every wait is followed by a call). *)
C19_BackoffDoubles ==
  \A r \in ReqIds :
    InAskGemini(r) =>
      /\ \A j \in 1..Len(req[r].waits) :
           req[r].waits[j] - LLM_RETRY_MS * 2^(j - 1) \in 0..(JitterRange - 1)
      /\ Len(req[r].waits) <= LLM_RETRIES - 1
      /\ req[r].pc # "sleep" => Len(req[r].waits) = req[r].genCalls - 1
      /\ req[r].pc = "sleep" => Len(req[r].waits) = req[r].genCalls

C19_Witness ==
  \E r \in ReqIds :
    /\ req[r].pc = "genThrew" /\ req[r].genCalls = 3
    /\ req[r].waits = <<LLM_RETRY_MS + JitterRange - 1, 2 * LLM_RETRY_MS>>
(***************************************************************************)
(* Termination of the chat handler                                         *)
(***************************************************************************)
(* one chat request per slot, one at a time, every behaviour of the        *)
(* outside services                                                        *)
ChatArrives == \E r \in ReqIds : req[r].pc = "idle" /\ ChatStart(r)

(* the completion of the outbound call, or of the sleep, that the handler  *)
(* in slot r is waiting for                                                *)
ChatStep(r) ==
  \/ UserRpush(r)
  \/ UserExpire(r)
  \/ EmbedDone(r)
  \/ SearchDone(r)
  \/ GenOk(r)
  \/ GenErr(r)
  \/ GenWake(r)
  \/ ChatAnswer(r)
  \/ ChatFallback(r)
  \/ AsstRpush(r)
  \/ AsstExpire(r)

NextLive == ChatArrives \/ \E r \in ReqIds : ChatStep(r)

(* each outbound call eventually returns or fails, and each sleep ends *)
SpecLive ==
  Init /\ [][NextLive]_vars /\ \A r \in ReqIds : WF_vars(ChatStep(r))

Responded(r) ==
  /\ req[r].pc = "done"
  /\ req[r].status \in {200, 400, 500}
  /\ req[r].sent = 1

(* C20: every chat request terminates with exactly one HTTP response (400, *)
(* 200 or 500), provided each outbound call eventually returns or fails:   *)
(* at most LLM_RETRIES calls of the model are made, and no path sends two  *)
(* responses or none.                                                      *)
C20_ChatTerminates ==
  /\ [](\A r \in ReqIds :
          /\ req[r].sent <= 1
          /\ req[r].genCalls <= LLM_RETRIES
          /\ req[r].pc = "done" => Responded(r))
  /\ \A r \in ReqIds : (req[r].op = "chat") ~> Responded(r)

C20_Witness ==
  \E r \in ReqIds :
    /\ Responded(r) /\ req[r].status = 200
    /\ req[r].genCalls = LLM_RETRIES /\ req[r].genFailed

(* chat requests with a client-chosen session id, and calls of             *)
(* POST /api/session/new, in any order                                     *)
NextSessions == NextLive \/ SessionNew

SpecSessions == Init /\ [][NextSessions]_vars
====
